---- MODULE Spec2Model ----
(***************************************************************************)
(* Model of src/server.js: the one-time initialize() sequence, the         *)
(* POST /search and GET /data handlers, and the reconciliation of the      *)
(* similarity index's matches against the in-memory guide data.            *)
(*                                                                         *)
(* JavaScript values are records with a type tag t.  Strings are sequences *)
(* of one-character strings, so that split(' > '), parseInt and the        *)
(* template `${category}-${index}` are computed character by character.    *)
(***************************************************************************)
EXTENDS Integers, Sequences, FiniteSets, TLC

VARIABLES NODE_ENV, initPc, guideData, pinecone, pipe, loadedData, req

vars == <<NODE_ENV, initPc, guideData, pinecone, pipe, loadedData, req>>

-----------------------------------------------------------------------------
(* Bounds of the model *)

\* number of request slots that may be in flight at once
NumRequests == 2
\* match scores are 1..MaxScore (higher = more similar)
MaxScore == 2
\* a long match list starts with MaxPrefix matches of distinct entries
MaxPrefix == 5
\* an arbitrary match list, and the arbitrary end of a long one, has at most
\* MaxTail matches
MaxTail == 2

(* Program constants *)

\* topK of index.query
TopK == 15
\* results.slice(0, 5)
TopResults == 5

-----------------------------------------------------------------------------
(* JavaScript values *)

Undefined == [t |-> "undefined"]

Str(s) == [t |-> "string", v |-> s]

Num(n) == [t |-> "number", v |-> n]

Obj(name) == [t |-> "object", v |-> name]

\* ToBoolean: undefined, 0 and '' are falsy; objects, arrays, other numbers
\* and non-empty strings are truthy
Truthy(x) ==
    CASE x.t = "undefined" -> FALSE
      [] x.t = "number" -> x.v # 0
      [] x.t = "string" -> x.v # <<>>
      [] OTHER -> TRUE

Digits == <<"0", "1", "2", "3", "4", "5", "6", "7", "8", "9">>

IsDigit(c) == \E d \in 1..Len(Digits) : Digits[d] = c

DigitVal(c) == (CHOOSE d \in 1..Len(Digits) : Digits[d] = c) - 1

IsSpace(c) == c = " "

\* ToString of a value used as a string (undefined becomes 'undefined')
RECURSIVE NumToStr(_)
NumToStr(n) ==
    IF n < 0 THEN <<"-">> \o NumToStr(0 - n)
    ELSE IF n < 10 THEN <<Digits[n + 1]>>
    ELSE NumToStr(n \div 10) \o <<Digits[(n % 10) + 1]>>

ToStr(x) ==
    CASE x.t = "undefined" -> <<"u", "n", "d", "e", "f", "i", "n", "e", "d">>
      [] x.t = "number" -> NumToStr(x.v)
      [] OTHER -> x.v

\* the positions at which sep occurs in s
Occurrences(s, sep) ==
    {i \in 1..(Len(s) - Len(sep) + 1) : SubSeq(s, i, i + Len(sep) - 1) = sep}

\* String.prototype.split with a non-empty separator: cut at the first
\* occurrence, then split what follows it
RECURSIVE SplitFrom(_, _)
SplitFrom(s, sep) ==
    LET occ == Occurrences(s, sep) IN
    IF occ = {} THEN <<s>>
    ELSE LET first == CHOOSE i \in occ : \A j \in occ : i <= j
         IN  <<SubSeq(s, 1, first - 1)>> \o SplitFrom(SubSeq(s, first + Len(sep), Len(s)), sep)

split(s, sep) == SplitFrom(s, sep)

\* pathParts[i] (0-based); a missing element reads as undefined
PartAt(parts, i) == IF i + 1 <= Len(parts) THEN Str(parts[i + 1]) ELSE Undefined

RECURSIVE TrimLeft(_)
TrimLeft(s) == IF s # <<>> /\ IsSpace(Head(s)) THEN TrimLeft(Tail(s)) ELSE s

RECURSIVE TrimRight(_)
TrimRight(s) ==
    IF s # <<>> /\ IsSpace(s[Len(s)]) THEN TrimRight(SubSeq(s, 1, Len(s) - 1)) ELSE s

\* String.prototype.trim
trim(s) == TrimRight(TrimLeft(s))

\* the longest prefix of decimal digits
RECURSIVE DigitPrefix(_)
DigitPrefix(s) ==
    IF s # <<>> /\ IsDigit(Head(s)) THEN <<Head(s)>> \o DigitPrefix(Tail(s)) ELSE <<>>

RECURSIVE DigitsValue(_)
DigitsValue(ds) ==
    IF ds = <<>> THEN 0
    ELSE DigitsValue(SubSeq(ds, 1, Len(ds) - 1)) * 10 + DigitVal(ds[Len(ds)])

NaN == [t |-> "number", nan |-> TRUE, v |-> 0]

isNaN(x) == x.t = "number" /\ "nan" \in DOMAIN x

\* parseInt(x) without a radix: the argument is converted to a string, leading
\* white space skipped, an optional sign read, then the longest run of decimal
\* digits; whatever follows is ignored, and no digit at all gives NaN.
\* (The tags of the model never start with 0x, the one case of radix 16.)
parseInt(x) ==
    LET s == TrimLeft(ToStr(x))
        neg == s # <<>> /\ Head(s) = "-"
        signed == s # <<>> /\ Head(s) \in {"-", "+"}
        body == IF signed THEN Tail(s) ELSE s
        ds == DigitPrefix(body)
    IN  IF ds = <<>> THEN NaN
        ELSE Num(IF neg THEN 0 - DigitsValue(ds) ELSE DigitsValue(ds))

-----------------------------------------------------------------------------
(* The guide data: a mapping from category name to an array of entries or   *)
(* to a keyed object of entries.                                            *)

Entry(title) == [t |-> "object", title |-> title]

Arr(items) == [t |-> "array", v |-> items]

Keyed(f) == [t |-> "object", v |-> f]

Engine == <<"E">>
Fluids == <<"S">>
Torque == <<"T">>

KbMixed ==
    (Engine :> Arr(<<Entry("e0"), Entry("e1"), Entry("e2"), Entry("e3")>>))
    @@ (Fluids :> Keyed((<<"a">> :> Entry("sa")) @@ (<<"b">> :> Entry("sb"))
                       @@ (<<"E", "-", "0">> :> Entry("sE0"))))
    @@ (Torque :> Keyed((<<"a">> :> Entry("ta"))))

KbPlain ==
    (Engine :> Arr(<<Entry("p0"), Entry("p1")>>))
    @@ (Fluids :> Keyed((<<"a">> :> Entry("pa"))))

KBs == {KbMixed, KbPlain}

\* obj[key] on the guide data or on a keyed category: an own property or undefined
GetProp(f, key) == IF ToStr(key) \in DOMAIN f THEN f[ToStr(key)] ELSE Undefined

\* arr[index] for an integer index: an element or undefined
GetIndex(items, i) == IF i >= 0 /\ i < Len(items) THEN items[i + 1] ELSE Undefined

-----------------------------------------------------------------------------
(* Matches and their resolution *)

Match(score, source) == [score |-> score, source |-> source]

Unresolved == [guide |-> Undefined, uniqueId |-> Undefined]

\* lines 91-112: the (guide, uniqueId) pair of a match whose source is a string
ResolveSource(kb, source) ==
    LET pathParts == split(source, <<" ", ">", " ">>)
        category == PartAt(pathParts, 0)
        guideKeyOrIndex == PartAt(pathParts, 1)
        container == GetProp(kb, category)
    IN  IF ~Truthy(container) THEN Unresolved
        ELSE IF container.t = "array"
             THEN LET index == parseInt(guideKeyOrIndex)
                  IN  IF ~isNaN(index) /\ Truthy(GetIndex(container.v, index.v))
                      THEN [guide |-> GetIndex(container.v, index.v),
                            uniqueId |-> Str(ToStr(category) \o <<"-">> \o ToStr(index))]
                      ELSE Unresolved
             ELSE IF Truthy(GetProp(container.v, guideKeyOrIndex))
                  THEN [guide |-> GetProp(container.v, guideKeyOrIndex),
                        uniqueId |-> guideKeyOrIndex]
                  ELSE Unresolved

\* retrievedGuides.has(uniqueId)
MapHas(map, uniqueId) == \E i \in 1..Len(map) : map[i].id = uniqueId

\* lines 115-119: { id: uniqueId, ...guide, score: match.score }; the guides
\* of the model have a title and no id or score field of their own
MakeResult(uniqueId, guide, score) == [id |-> uniqueId, title |-> guide.title, score |-> score]

\* lines 89-121: the loop over response.matches.  source.split throws a
\* TypeError when match.metadata.source is not a string, which leaves the loop.
RECURSIVE ReconcileLoop(_, _, _)
ReconcileLoop(kb, matches, map) ==
    IF matches = <<>> THEN [threw |-> FALSE, map |-> map]
    ELSE LET match == Head(matches) IN
         IF match.source.t # "string" THEN [threw |-> TRUE, map |-> map]
         ELSE LET r == ResolveSource(kb, match.source.v) IN
              IF Truthy(r.guide) /\ ~MapHas(map, r.uniqueId)
              THEN ReconcileLoop(kb, Tail(matches),
                                 Append(map, MakeResult(r.uniqueId, r.guide, match.score)))
              ELSE ReconcileLoop(kb, Tail(matches), map)

\* the comparator (a, b) => b.score - a.score
Compare(a, b) == b.score - a.score

\* an insertion that takes the tie the other way: x goes before its equals
RECURSIVE InsertBeforeEquals(_, _)
InsertBeforeEquals(sorted, x) ==
    IF sorted = <<>> THEN <<x>>
    ELSE IF Compare(Head(sorted), x) < 0
         THEN <<Head(sorted)>> \o InsertBeforeEquals(Tail(sorted), x)
         ELSE <<x>> \o sorted

\* one insertion of a stable sort: x goes after every element that does not
\* compare greater than it
RECURSIVE InsertSorted(_, _)
InsertSorted(sorted, x) ==
    IF sorted = <<>> THEN <<x>>
    ELSE IF Compare(Head(sorted), x) <= 0
         THEN <<Head(sorted)>> \o InsertSorted(Tail(sorted), x)
         ELSE <<x>> \o sorted

\* line 124: results.sort(...), a stable sort in insertion (Map) order
RECURSIVE SortFrom(_, _)
SortFrom(results, sorted) ==
    IF results = <<>> THEN sorted
    ELSE SortFrom(Tail(results), InsertSorted(sorted, Head(results)))

sort(results) == SortFrom(results, <<>>)

\* line 126: results.slice(0, 5)
slice(results) == SubSeq(results, 1, IF Len(results) < TopResults THEN Len(results) ELSE TopResults)

-----------------------------------------------------------------------------
(* Requests *)

Requests == 1..NumRequests

Envs == {"development", "production"}

\* a slot no request has arrived on yet
IdleRequest ==
    [pc |-> "idle", kind |-> "none", query |-> Undefined, matches |-> <<>>,
     retrieved |-> <<>>, status |-> 0, body |-> Undefined,
     pipeCalls |-> 0, queryCalls |-> 0, threw |-> "none",
     seen |-> [guideData |-> FALSE, pinecone |-> FALSE, pipe |-> FALSE,
               initPc |-> "start", inFlight |-> 0]]

\* what the handler's first statement finds in the three globals
\* and how far initialize() has come and how many other requests are suspended
\* at an await (kept for the statements about the handlers, not read by them)
Seen ==
    [guideData |-> Truthy(guideData), pinecone |-> Truthy(pinecone), pipe |-> Truthy(pipe),
     initPc |-> initPc,
     inFlight |-> Cardinality({o \in DOMAIN req : req[o].pc \in {"embedding", "querying"}})]

\* res.status(code).json({ error, details })
ErrorBody(error, details) == [t |-> "object", error |-> error, details |-> details]

\* details: NODE_ENV === 'development' ? e.message : undefined
Details(message) == IF NODE_ENV = "development" THEN message ELSE "undefined"

\* the server accepts requests once the listen callback has run initialize()
\* up to its first await, and until process.exit
Serving == initPc \in {"import", "pipeline", "done", "failed"}

Respond(r, status, body, more) ==
    req' = [req EXCEPT ![r] = [k \in DOMAIN req[r] |->
                IF k = "pc" THEN "done"
                ELSE IF k = "status" THEN status
                ELSE IF k = "body" THEN body
                ELSE IF k \in DOMAIN more THEN more[k]
                ELSE req[r][k]]]

-----------------------------------------------------------------------------
(* initialize(), lines 30-58 *)

\* lines 51-56: the catch block
InitCatch == initPc' = IF NODE_ENV # "production" THEN "exited" ELSE "failed"

\* lines 32-48, run from the listen callback up to the first await.
\*   badkey   the placeholder API key (line 33 throws)
\*   nofile   data.json is missing (line 39 throws)
\*   baddata  data.json does not parse or has no bmw_z3_guide (line 41/42 throws)
\*   noclient the Pinecone constructor throws (line 45), after guideData is set
InitializeStart(outcome, kb) ==
    /\ initPc = "start"
    /\ \/ /\ outcome \in {"badkey", "nofile", "baddata"}
          /\ InitCatch
          /\ UNCHANGED <<guideData, pinecone, loadedData>>
       \/ /\ outcome = "noclient"
          /\ guideData' = Keyed(kb)
          /\ loadedData' = Keyed(kb)
          /\ InitCatch
          /\ UNCHANGED pinecone
       \/ /\ outcome = "ok"
          /\ guideData' = Keyed(kb)
          /\ loadedData' = Keyed(kb)
          /\ pinecone' = Obj("Pinecone")
          /\ initPc' = "import"
    /\ UNCHANGED <<NODE_ENV, pipe, req>>

\* line 48: await import('@xenova/transformers') settles
InitImportSettled(ok) ==
    /\ initPc = "import"
    /\ IF ok THEN initPc' = "pipeline" ELSE InitCatch
    /\ UNCHANGED <<NODE_ENV, guideData, pinecone, pipe, loadedData, req>>

\* line 49: await pipeline(...) settles
InitPipelineSettled(ok) ==
    /\ initPc = "pipeline"
    /\ IF ok THEN pipe' = Obj("pipeline") /\ initPc' = "done"
             ELSE InitCatch /\ UNCHANGED pipe
    /\ UNCHANGED <<NODE_ENV, guideData, pinecone, loadedData, req>>

-----------------------------------------------------------------------------
(* POST /search, lines 61-135 *)

\* the test of line 70 without the trim: a query of white space only passes
InvalidQueryNoTrim(query) ==
    \/ ~Truthy(query)
    \/ query.t # "string"
    \/ Len(query.v) = 0

\* line 70: !query || typeof query !== 'string' || query.trim().length === 0
InvalidQuery(query) ==
    \/ ~Truthy(query)
    \/ query.t # "string"
    \/ Len(trim(query.v)) = 0

\* the guard of line 62 without the two service checks
NotReadyDataOnly == ~Truthy(guideData)

\* line 62: !pinecone || !pipe || !guideData
NotReady == ~Truthy(pinecone) \/ ~Truthy(pipe) \/ ~Truthy(guideData)

\* line 65: details
NotReadyDetails == IF ~Truthy(guideData) THEN "Data not loaded" ELSE "AI services not initialized"

\* lines 61-76: the handler up to its first await (the call of pipe)
SearchArrives(r, query) ==
    /\ Serving
    /\ req[r].pc = "idle"
    /\ LET arrived == [kind |-> "search", query |-> query, seen |-> Seen] IN
       IF NotReady
       THEN Respond(r, 503,
                    ErrorBody("Server is not ready, please try again later.", NotReadyDetails),
                    arrived)
       ELSE IF InvalidQuery(query)
       THEN Respond(r, 400, [t |-> "object", error |-> "Valid query string is required"],
                    arrived)
       ELSE req' = [req EXCEPT ![r] = [k \in DOMAIN req[r] |->
                       IF k = "pc" THEN "embedding"
                       ELSE IF k = "pipeCalls" THEN req[r].pipeCalls + 1
                       ELSE IF k \in DOMAIN arrived THEN arrived[k]
                       ELSE req[r][k]]]
    /\ UNCHANGED <<NODE_ENV, initPc, guideData, pinecone, pipe, loadedData>>

\* lines 128-134: the catch block of the handler
SearchFailed(r, where) ==
    Respond(r, 500, ErrorBody("Failed to perform search.", Details(where)),
            [threw |-> where])

\* lines 76-81: the embedding arrives and index.query is called
EmbeddingResolves(r) ==
    /\ req[r].pc = "embedding"
    /\ req' = [req EXCEPT ![r].pc = "querying", ![r].queryCalls = @ + 1]
    /\ UNCHANGED <<NODE_ENV, initPc, guideData, pinecone, pipe, loadedData>>

\* line 76: the call of pipe rejects
EmbeddingRejects(r) ==
    /\ req[r].pc = "embedding"
    /\ SearchFailed(r, "embedding")
    /\ UNCHANGED <<NODE_ENV, initPc, guideData, pinecone, pipe, loadedData>>

\* guide.score = match.score written into the guide itself, for the first match
\* of the list that names an element of an array category
GuideDataAnnotated(data, matches) ==
    IF matches = <<>> \/ Head(matches).source.t # "string" THEN data
    ELSE LET pathParts == split(Head(matches).source.v, <<" ", ">", " ">>)
             category == ToStr(PartAt(pathParts, 0))
             index == parseInt(PartAt(pathParts, 1))
         IN  IF /\ category \in DOMAIN data.v
                /\ data.v[category].t = "array"
                /\ ~isNaN(index)
                /\ Truthy(GetIndex(data.v[category].v, index.v))
             THEN [data EXCEPT !.v[category].v[index.v + 1] =
                        [t |-> "object", title |-> @.title, score |-> Head(matches).score]]
             ELSE data

\* lines 114-120 store a copy of the guide ({ ...guide }): the loop leaves the
\* guide data as it was
GuideDataAfterLoop(data, matches) == data

\* lines 81-126: the index answers with matches; the loop, the sort and the
\* slice run without a further await
IndexResolves(r, matches) ==
    /\ req[r].pc = "querying"
    /\ Len(matches) <= TopK
    /\ LET loop == ReconcileLoop(guideData.v, matches, <<>>) IN
       IF loop.threw
       THEN Respond(r, 500, ErrorBody("Failed to perform search.", Details("TypeError")),
                    [threw |-> "TypeError", matches |-> matches, retrieved |-> loop.map])
       ELSE Respond(r, 200, Arr(slice(sort(loop.map))),
                    [matches |-> matches, retrieved |-> loop.map])
    /\ guideData' = GuideDataAfterLoop(guideData, matches)
    /\ UNCHANGED <<NODE_ENV, initPc, pinecone, pipe, loadedData>>

\* line 81: index.query rejects
IndexRejects(r) ==
    /\ req[r].pc = "querying"
    /\ SearchFailed(r, "index")
    /\ UNCHANGED <<NODE_ENV, initPc, guideData, pinecone, pipe, loadedData>>

-----------------------------------------------------------------------------
(* GET /data, lines 138-153 *)

\* a guard that never reports not-ready
DataNotReadyNever == FALSE

\* line 139: !guideData
DataNotReady == ~Truthy(guideData)

DataRequest(r) ==
    /\ Serving
    /\ req[r].pc = "idle"
    /\ IF DataNotReady
       THEN Respond(r, 503,
                    [t |-> "object", error |-> "Server is not ready, please try again later."],
                    [kind |-> "data", seen |-> Seen])
       ELSE Respond(r, 200, [t |-> "object", bmw_z3_guide |-> guideData],
                    [kind |-> "data", seen |-> Seen])
    /\ UNCHANGED <<NODE_ENV, initPc, guideData, pinecone, pipe, loadedData>>

-----------------------------------------------------------------------------
(* Inputs *)

Tag(category, rest) == Str(category \o <<" ", ">", " ">> \o rest)

\* metadata.source of a match: resolvable tags, tags that miss (unknown
\* category, index out of range, missing key, no delimiter, no number), a tag
\* whose index is followed by other characters, and no source at all
TagPool ==
    { Tag(Engine, <<"0">>), Tag(Engine, <<"1">>),
      Tag(Fluids, <<"a">>), Tag(Fluids, <<"E", "-", "0">>), Tag(Torque, <<"a">>),
      Tag(<<"X">>, <<"0">>), Tag(Engine, <<"9">>), Tag(Fluids, <<"z">>),
      Str(Engine), Tag(Engine, <<"x">>),
      Tag(Engine, <<"1", "x">>),
      Undefined }

Scores == 1..MaxScore

Matches == {Match(score, source) : score \in Scores, source \in TagPool}

\* tags of distinct entries, to fill a match list beyond the size of a response
PrefixTags ==
    << Tag(Engine, <<"3">>), Tag(Fluids, <<"b">>), Tag(Engine, <<"2">>),
       Tag(Engine, <<"1">>), Tag(Engine, <<"0">>), Tag(Fluids, <<"a">>) >>

Prefix(k) == [i \in 1..k |-> Match(((i - 1) % MaxScore) + 1, PrefixTags[i])]

Tails(n) == UNION {[1..k -> Matches] : k \in 0..n}

\* the match lists the index may answer with: every list of at most MaxTail
\* matches, and the lists of MaxPrefix matches of distinct entries followed by
\* fewer than MaxTail matches more
MatchLists ==
    Tails(MaxTail)
    \cup {Prefix(IF MaxPrefix < Len(PrefixTags) THEN MaxPrefix ELSE Len(PrefixTags)) \o tail :
             tail \in Tails(MaxTail - 1)}

\* the match lists of the requests that run side by side
ServerLists ==
    { <<>>,
      <<Match(1, Tag(Engine, <<"1">>)), Match(MaxScore, Tag(Engine, <<"1">>)),
        Match(MaxScore, Tag(Fluids, <<"a">>))>>,
      <<Match(MaxScore, Tag(Fluids, <<"a">>)), Match(1, Tag(<<"X">>, <<"0">>))>>,
      <<Match(1, Undefined)>> }

\* req.body.query: missing, a number, empty, white space only, and a text
Queries ==
    { Undefined, Num(7), Str(<<>>), Str(<<" ", " ">>), Str(<<" ", "z", "3">>) }

InitOutcomes == {"badkey", "nofile", "baddata", "noclient", "ok"}

-----------------------------------------------------------------------------
(* The server: initialize() and any number of interleaved requests *)

Init ==
    /\ NODE_ENV \in Envs
    /\ initPc = "start"
    /\ guideData = Undefined
    /\ pinecone = Undefined
    /\ pipe = Undefined
    /\ loadedData = Undefined
    /\ req = [r \in Requests |-> IdleRequest]

Next ==
    \/ \E outcome \in InitOutcomes, kb \in KBs : InitializeStart(outcome, kb)
    \/ \E ok \in BOOLEAN : InitImportSettled(ok)
    \/ \E ok \in BOOLEAN : InitPipelineSettled(ok)
    \/ \E r \in Requests, query \in Queries : SearchArrives(r, query)
    \/ \E r \in Requests : EmbeddingResolves(r)
    \/ \E r \in Requests : EmbeddingRejects(r)
    \/ \E r \in Requests, matches \in ServerLists : IndexResolves(r, matches)
    \/ \E r \in Requests : IndexRejects(r)
    \/ \E r \in Requests : DataRequest(r)

Spec == Init /\ [][Next]_vars

(* One search on an initialized server, over every match list of MatchLists *)

InitSearch ==
    /\ NODE_ENV \in Envs
    /\ initPc = "done"
    /\ \E kb \in KBs : guideData = Keyed(kb) /\ loadedData = Keyed(kb)
    /\ pinecone = Obj("Pinecone")
    /\ pipe = Obj("pipeline")
    /\ req = [r \in Requests |->
                IF r = 1
                THEN [k \in DOMAIN IdleRequest |->
                        IF k = "pc" THEN "querying"
                        ELSE IF k = "kind" THEN "search"
                        ELSE IF k = "query" THEN Str(<<"z", "3">>)
                        ELSE IF k \in {"pipeCalls", "queryCalls"} THEN 1
                        ELSE IF k = "seen"
                        THEN [guideData |-> TRUE, pinecone |-> TRUE, pipe |-> TRUE,
                              initPc |-> "done", inFlight |-> 0]
                        ELSE IdleRequest[k]]
                ELSE IdleRequest]

NextSearch ==
    \/ /\ req[1].pc = "querying"
       /\ \E matches \in MatchLists : IndexResolves(1, matches)
    \/ IndexRejects(1)

SpecSearch == InitSearch /\ [][NextSearch]_vars

-----------------------------------------------------------------------------
(* Vocabulary of the statements *)

Done(r) == req[r].pc = "done"

\* the index answered the request with a match list
Answered(r) == Done(r) /\ req[r].kind = "search" /\ req[r].status \in {200, 500}
               /\ req[r].threw \in {"none", "TypeError"}

Search200(r) == Done(r) /\ req[r].kind = "search" /\ req[r].status = 200

\* initialization had completed when the request arrived
ArrivedReady(r) == req[r].seen.guideData /\ req[r].seen.pinecone /\ req[r].seen.pipe

\* what a match resolves to in the loaded guide data
Resolution(m) ==
    IF m.source.t = "string" THEN ResolveSource(loadedData.v, m.source.v) ELSE Unresolved

Resolves(m) == Resolution(m).uniqueId.t = "string"

\* the matches of a list that resolve to the uniqueId id
Positions(matches, id) ==
    {k \in 1..Len(matches) : Resolves(matches[k]) /\ Resolution(matches[k]).uniqueId = id}

UniqueIds(matches) ==
    {Resolution(matches[k]).uniqueId : k \in {j \in 1..Len(matches) : Resolves(matches[j])}}

Min(a, b) == IF a < b THEN a ELSE b

\* a query that is missing, not a string, empty or of white space only
BlankQuery(query) ==
    \/ query.t # "string"
    \/ \A i \in 1..Len(query.v) : query.v[i] = " "

\* a string of decimal digits, at least one
WholeNumber(s) == s # <<>> /\ \A i \in 1..Len(s) : IsDigit(s[i])

-----------------------------------------------------------------------------
(* C1 *)

\* C1 (as stated): whenever several matches of a list, in any order, resolve
\* to the same uniqueId, the one result with that uniqueId in the reconciled
\* set carries the highest score among those matches.
C1_HighestScoreWins ==
    \A r \in Requests :
        Search200(r) =>
            \A i \in 1..Len(req[r].retrieved) :
                \A k \in Positions(req[r].matches, req[r].retrieved[i].id) :
                    req[r].retrieved[i].score >= req[r].matches[k].score

(* C2 *)

\* the uniqueId each match of a list resolves to (undefined when it does not)
ResolvedIds(matches) == [k \in 1..Len(matches) |-> Resolution(matches[k]).uniqueId]

\* the position of the first match that resolves to id
FirstOf(ids, id) == CHOOSE k \in 1..Len(ids) : ids[k] = id /\ \A j \in 1..(k - 1) : ids[j] # id

DescendingStable(results, first) ==
    \A i \in 1..Len(results) : \A j \in (i + 1)..Len(results) :
        /\ results[i].score >= results[j].score
        /\ results[i].score = results[j].score => first[i] < first[j]

\* C2: in every 200 response of POST /search the scores do not increase with
\* the position, and of two results with equal scores the one whose first
\* match came earlier in the index's list stands first.
C2_DescendingStable ==
    \A r \in Requests :
        Search200(r) =>
            LET ids == ResolvedIds(req[r].matches)
                first == [i \in 1..Len(req[r].body.v) |-> FirstOf(ids, req[r].body.v[i].id)]
            IN  DescendingStable(req[r].body.v, first)

\* a 200 response of three results or more in which the sort moved a result
\* and two results tie
C2_Witness ==
    \E r \in Requests :
        /\ Search200(r)
        /\ Len(req[r].body.v) >= 3
        /\ req[r].body.v # slice(req[r].retrieved)
        /\ \E i, j \in 1..Len(req[r].body.v) :
              i < j /\ req[r].body.v[i].score = req[r].body.v[j].score

(* C3 *)

\* C3 (as stated): whatever list the index answers with, the request ends with
\* a 200 response, never 500, and the reconciled set is the one the matches
\* that resolve give without the others.
C3_BadMatchesSkipped ==
    \A r \in Requests :
        Answered(r) =>
            /\ req[r].status = 200
            /\ req[r].retrieved =
                 ReconcileLoop(loadedData.v, SelectSeq(req[r].matches, Resolves), <<>>).map

(* C4 *)

\* C4: a POST /search that arrives while guideData, pinecone or pipe is unset
\* is answered 503 at once, with details 'Data not loaded' exactly when
\* guideData is unset and 'AI services not initialized' exactly when guideData
\* is set and pinecone or pipe is not; pipe and index.query are not called.
C4_NotReady503 ==
    \A r \in Requests :
        (req[r].kind = "search" /\ ~ArrivedReady(r)) =>
            /\ Done(r)
            /\ req[r].status = 503
            /\ req[r].body.details = "Data not loaded" <=> ~req[r].seen.guideData
            /\ req[r].body.details = "AI services not initialized" <=> req[r].seen.guideData
            /\ req[r].pipeCalls = 0
            /\ req[r].queryCalls = 0

\* a search answered 503 while initialize() is suspended at one of its awaits
C4_Witness ==
    \E r \in Requests :
        /\ req[r].kind = "search"
        /\ req[r].status = 503
        /\ req[r].seen.initPc \in {"import", "pipeline"}
        /\ req[r].body.details = "AI services not initialized"

(* C5 *)

\* C5 (as stated): a POST /search or GET /data that arrives before the startup
\* sequence has completed is answered 503.
C5_NotReadyUntilComplete ==
    \A r \in Requests :
        (Done(r) /\ req[r].kind \in {"search", "data"} /\ req[r].seen.initPc # "done") =>
            req[r].status = 503

\* C5 (amended): before the startup sequence has completed POST /search is
\* answered 503; GET /data is answered 503 when guideData is unset and 200 with
\* the whole guide data as soon as it is loaded, whether initialize() has
\* completed, is suspended at an await or has failed.
C5_Amended ==
    \A r \in Requests :
        /\ (req[r].kind = "search" /\ req[r].seen.initPc # "done") =>
              Done(r) /\ req[r].status = 503
        /\ req[r].kind = "data" =>
              /\ Done(r)
              /\ IF req[r].seen.guideData
                 THEN req[r].status = 200 /\ req[r].body.bmw_z3_guide = loadedData
                 ELSE req[r].status = 503

\* GET /data answered 200 in production after initialize() failed, and a
\* search of the same server answered 503
C5_Witness ==
    \E r, o \in Requests :
        /\ req[r].kind = "data" /\ req[r].status = 200 /\ req[r].seen.initPc = "failed"
        /\ req[o].kind = "search" /\ req[o].status = 503 /\ req[o].seen.initPc = "failed"

(* C6 *)

\* C6 (as stated): a POST /search whose query is missing, not a string, empty
\* or white space only is answered 400 'Valid query string is required',
\* whatever the state of the initialization, and calls neither pipe nor
\* index.query.
C6_BlankAlways400 ==
    \A r \in Requests :
        (Done(r) /\ req[r].kind = "search" /\ BlankQuery(req[r].query)) =>
            /\ req[r].status = 400
            /\ req[r].body.error = "Valid query string is required"
            /\ req[r].pipeCalls = 0
            /\ req[r].queryCalls = 0

\* C6 (amended): such a request is answered 400 'Valid query string is
\* required' when it arrives with guideData, pinecone and pipe set and 503
\* otherwise; either way it calls neither pipe nor index.query.
C6_Amended ==
    \A r \in Requests :
        (req[r].kind = "search" /\ BlankQuery(req[r].query)) =>
            /\ Done(r)
            /\ req[r].pipeCalls = 0
            /\ req[r].queryCalls = 0
            /\ IF ArrivedReady(r)
               THEN /\ req[r].status = 400
                    /\ req[r].body.error = "Valid query string is required"
               ELSE req[r].status = 503

\* a query of white space only answered 400
C6_Witness ==
    \E r \in Requests :
        /\ req[r].kind = "search"
        /\ req[r].query = Str(<<" ", " ">>)
        /\ req[r].status = 400

(* C7 *)

\* C7 (as stated): a single match 'C > k' on an array category C resolves if
\* and only if k is a whole non-negative number below the length of C; the
\* result then is C[k] under the uniqueId 'C-k'.
C7_ArrayIndexStrict ==
    \A r \in Requests :
        (Answered(r) /\ Len(req[r].matches) = 1 /\ req[r].matches[1].source.t = "string") =>
            LET parts == split(req[r].matches[1].source.v, <<" ", ">", " ">>) IN
            (Len(parts) = 2 /\ parts[1] \in DOMAIN loadedData.v
                            /\ loadedData.v[parts[1]].t = "array") =>
                LET items == loadedData.v[parts[1]].v
                    inRange == WholeNumber(parts[2]) /\ DigitsValue(parts[2]) < Len(items)
                IN  /\ (req[r].retrieved # <<>>) <=> inRange
                    /\ inRange =>
                          /\ req[r].retrieved[1].title = items[DigitsValue(parts[2]) + 1].title
                          /\ req[r].retrieved[1].id =
                               Str(parts[1] \o <<"-">> \o NumToStr(DigitsValue(parts[2])))

(* C8 *)

\* C8 (as stated): a 200 response holds exactly min(5, number of distinct
\* uniqueIds the matches resolve to) results, and a list of which no match
\* resolves is answered 200 with the empty array, not with an error.
C8_ResultSize ==
    \A r \in Requests :
        Answered(r) =>
            /\ req[r].status = 200 =>
                  Len(req[r].body.v) = Min(TopResults, Cardinality(UniqueIds(req[r].matches)))
            /\ UniqueIds(req[r].matches) = {} =>
                  req[r].status = 200 /\ req[r].body.v = <<>>

(* C9 *)

\* the response of a request that runs alone on the loaded guide data
AloneResponse(matches) ==
    LET loop == ReconcileLoop(loadedData.v, matches, <<>>) IN
    IF loop.threw
    THEN [status |-> 500, body |-> ErrorBody("Failed to perform search.", Details("TypeError"))]
    ELSE [status |-> 200, body |-> Arr(slice(sort(loop.map)))]

\* the state part of C9: the guide data is as loaded, and every answered
\* search has the response of a request running alone with its matches
C9_SameAsAlone ==
    /\ Truthy(guideData) => guideData = loadedData
    /\ \A r \in Requests :
          Answered(r) =>
              /\ req[r].status = AloneResponse(req[r].matches).status
              /\ req[r].body = AloneResponse(req[r].matches).body
              /\ \A o \in Requests :
                    (Answered(o) /\ req[o].matches = req[r].matches) =>
                        req[o].status = req[r].status /\ req[o].body = req[r].body

\* C9: however the requests interleave at their awaits, every /search response
\* is the one its matches give on the guide data as loaded, two requests with
\* the same matches get the same response, and no step of a request handler
\* changes guideData, pinecone or pipe.
C9_Isolation ==
    /\ []C9_SameAsAlone
    /\ [][initPc' = initPc => UNCHANGED <<guideData, pinecone, pipe>>]_vars

\* a search that arrived while another was suspended at an await, both
\* answered 200, the first with two results or more
C9_Witness ==
    \E r, o \in Requests :
        /\ r # o
        /\ Search200(r) /\ Search200(o)
        /\ req[r].seen.inFlight >= 1
        /\ Len(req[r].body.v) >= 2
        /\ req[o].body.v # <<>>

(* C10 *)

\* C10 (as stated): two matches of a list that resolve to different entries
\* get different uniqueIds, and both entries are in the reconciled set.
C10_UniqueIdInjective ==
    \A r \in Requests :
        Search200(r) =>
            \A j, k \in 1..Len(req[r].matches) :
                LET a == Resolution(req[r].matches[j])
                    b == Resolution(req[r].matches[k])
                IN  (a.guide.t = "object" /\ b.guide.t = "object" /\ a.guide # b.guide) =>
                        /\ a.uniqueId # b.uniqueId
                        /\ \E i \in 1..Len(req[r].retrieved) :
                              req[r].retrieved[i].title = a.guide.title
                        /\ \E i \in 1..Len(req[r].retrieved) :
                              req[r].retrieved[i].title = b.guide.title

====
